---- MODULE Spec2Model ----
(***************************************************************************)
(* A model of honeybee.radiance.analysispoint.AnalysisPoint: the result     *)
(* store of one analysis point (sources, states, hourly samples), its       *)
(* writers and readers, the combined-value readers, the blinds state        *)
(* selection and the annual metrics.                                        *)
(*                                                                          *)
(* Python values are modelled as follows.                                   *)
(*   - None is the integer None (no illuminance value is negative).         *)
(*   - A state name is a sequence of one-character strings, so that         *)
(*     str(state).isdigit() and int(state) are computed from the name.      *)
(*   - A stored sample is [kind, v]: kind "list" is the mutable             *)
(*     [total, direct] made by defaultdict(double), kind "tuple" is the     *)
(*     immutable (total, direct) stored by the coupled setters.             *)
(*   - _values[sid][stateid] is a function from the hours present in the    *)
(*     dictionary to samples; sequences are 1-based, ids are 0-based.       *)
(*   - keyOrder is the iteration order of the _sources dictionary. The      *)
(*     code is Python 2 (izip, iteritems): a dict iterates in hash-slot     *)
(*     order, which is any order as far as the names are concerned.         *)
(*   - A call leaves its name, arguments, outcome (ok or the exception      *)
(*     raised) and return value in the variable call.                       *)
(*   - gen is the generator the last combinedValuesById call returned: its  *)
(*     arguments, and the locals of its frame once next() has started it.   *)
(*   - A generator passed to a batch setter is its items and the calls its  *)
(*     body makes on the object before each yield, to any of its methods;   *)
(*     the setter draws from it between its writes, and the call it leaves  *)
(*     in the variable call lists in made the calls that were made.         *)
(***************************************************************************)
EXTENDS Integers, Sequences, FiniteSets, TLC

VARIABLES sources, keyOrder, values, isDirectLoaded, call, nwrites, nreads, gen

vars == <<sources, keyOrder, values, isDirectLoaded, call, nwrites, nreads, gen>>

store == <<sources, keyOrder, values, isDirectLoaded>>

----------------------------------------------------------------------------
(* Bounds of the model *)

MaxHour == 1
MaxVal == 1
MaxWrites == 2
MaxReads == 1
MaxLen == 1
MaxRegs == 3
MaxHours == 2

None == -1000

SourceNames == {"a", "b"}
StateNames == {<<"x">>, <<"1">>}
Hours == 0..MaxHour
Vals == 0..MaxVal

SeqsUpTo(S, n) == UNION {[1..k -> S] : k \in 0..n}

----------------------------------------------------------------------------
(* Python helpers *)

DigitChars == <<"0", "1", "2", "3", "4", "5", "6", "7", "8", "9">>

IsDigitChar(c) == \E i \in 1..Len(DigitChars) : DigitChars[i] = c

DigitVal(c) == (CHOOSE i \in 1..Len(DigitChars) : DigitChars[i] = c) - 1

\* str.isdigit(): non-empty and every character a digit
IsDigit(s) == Len(s) > 0 /\ \A i \in 1..Len(s) : IsDigitChar(s[i])

RECURSIVE ToInt(_)
\* int(s) for a string of digits
ToInt(s) == IF Len(s) = 0 THEN 0
            ELSE 10 * ToInt(SubSeq(s, 1, Len(s) - 1)) + DigitVal(s[Len(s)])

\* list.index(x): 0-based position of the first occurrence, -1 when absent
IndexOf(lst, x) == IF \E i \in 1..Len(lst) : lst[i] = x
                   THEN (CHOOSE i \in 1..Len(lst) :
                            lst[i] = x /\ \A j \in 1..(i - 1) : lst[j] # x) - 1
                   ELSE -1

InList(lst, x) == \E i \in 1..Len(lst) : lst[i] = x

\* sorted(keys) of a set of integers
RECURSIVE Sorted(_)
Sorted(S) == IF S = {} THEN <<>>
             ELSE LET m == CHOOSE x \in S : \A y \in S : x <= y
                  IN <<m>> \o Sorted(S \ {m})

\* the orders a dict of the keys S can iterate in
KeyOrders(S) ==
    {f \in [1..Cardinality(S) -> S] : \A i, j \in DOMAIN f : f[i] = f[j] => i = j}

RECURSIVE PowerOfTwoAbove(_, _)
\* the smallest size, from size on by doubling, that is more than n
PowerOfTwoAbove(size, n) == IF size > n THEN size ELSE PowerOfTwoAbove(2 * size, n)

RECURSIVE DictSlots(_)
\* the slots of a CPython 2.7 dict after n insertions: 8 at first, and once
\* two thirds are filled the table is rebuilt with more than 4 * n slots
DictSlots(n) ==
    IF n = 0 THEN 8
    ELSE LET slots == DictSlots(n - 1)
         IN IF n * 3 >= slots * 2 THEN PowerOfTwoAbove(8, 4 * n) ELSE slots

\* double(): the default sample of defaultdict(double)
double == [kind |-> "list", v |-> <<None, None>>]

\* d[hoy] on a defaultdict: a missing key is inserted with double()
Touch(series, hoy) == IF hoy \in DOMAIN series THEN series
                      ELSE (hoy :> double) @@ series

Put(series, hoy, sample) == (hoy :> sample) @@ series

EmptySeries == [h \in {} |-> double]

Series(vals, sid, stateid) == vals[sid + 1][stateid + 1]

WithSeries(vals, sid, stateid, series) ==
    [vals EXCEPT ![sid + 1] = [@ EXCEPT ![stateid + 1] = series]]

----------------------------------------------------------------------------
(* The object after __init__: no source, no value, no call made and no     *)
(* generator held                                                           *)

NoGenerator == [state |-> "none", hoys |-> <<>>, blindsStateIds |-> <<>>,
                hs |-> <<>>, matrix |-> <<>>, dirValue |-> None, i |-> 0]

Init ==
    /\ sources = [n \in {} |-> [id |-> 0, state |-> <<>>]]
    /\ keyOrder = <<>>
    /\ values = <<>>
    /\ isDirectLoaded = FALSE
    /\ call = [op |-> "init", args |-> <<>>, outcome |-> "ok", ret |-> None]
    /\ nwrites = 0
    /\ nreads = 0
    /\ gen = NoGenerator

----------------------------------------------------------------------------
(* Properties of the store *)

hasValues == Len(values) # 0

hasDirectValues == isDirectLoaded

HoysOf(vals) == IF Len(vals) = 0 THEN <<>> ELSE Sorted(DOMAIN vals[1][1])

hoys == HoysOf(values)

\* sources: names ordered by id
SourcesById(srcs) == [i \in 1..Cardinality(DOMAIN srcs) |->
                        CHOOSE n \in DOMAIN srcs : srcs[n].id = i - 1]

\* self as a call finds it: the slots of the object and the generators
\* combinedValuesById has returned (the caller holds the last); made,
\* outcome and ret are what the call has done so far
Self == [sources |-> sources, keyOrder |-> keyOrder, values |-> values,
         isDirectLoaded |-> isDirectLoaded, gens |-> <<gen>>,
         made |-> <<>>, outcome |-> "ok", ret |-> None]

----------------------------------------------------------------------------
(* _createDataStructure *)

\* _createDataStructure as it would be with insert(0, ..) for append(..): a new
\* state, with its series, is put first and shifts the ids of the states
\* the source already has
CreateDataStructureFront(srcs, vals, source, state) ==
    LET isNewSrc == source \notin DOMAIN srcs
        src1 == IF isNewSrc
                THEN [n \in DOMAIN srcs \cup {source} |->
                        IF n = source
                        THEN [id |-> Cardinality(DOMAIN srcs), state |-> <<>>]
                        ELSE srcs[n]]
                ELSE srcs
        val1 == IF isNewSrc THEN Append(vals, <<>>) ELSE vals
        sid == src1[source].id
        isNewSt == ~InList(src1[source].state, state)
        src2 == IF isNewSt
                THEN [src1 EXCEPT ![source].state = <<state>> \o @]
                ELSE src1
        val2 == IF isNewSt
                THEN [val1 EXCEPT ![sid + 1] = <<EmptySeries>> \o @]
                ELSE val1
    IN [sources |-> src2, values |-> val2,
        sid |-> sid, stateid |-> IndexOf(src2[source].state, state)]

\* _createDataStructure on the registry srcs and the series vals
CreateDataStructure(srcs, vals, source, state) ==
    LET isNewSrc == source \notin DOMAIN srcs
        src1 == IF isNewSrc
                THEN [n \in DOMAIN srcs \cup {source} |->
                        IF n = source
                        THEN [id |-> Cardinality(DOMAIN srcs), state |-> <<>>]
                        ELSE srcs[n]]
                ELSE srcs
        val1 == IF isNewSrc THEN Append(vals, <<>>) ELSE vals
        sid == src1[source].id
        isNewSt == ~InList(src1[source].state, state)
        src2 == IF isNewSt
                THEN [src1 EXCEPT ![source].state = Append(@, state)]
                ELSE src1
        val2 == IF isNewSt
                THEN [val1 EXCEPT ![sid + 1] = Append(@, EmptySeries)]
                ELSE val1
    IN [sources |-> src2, values |-> val2,
        sid |-> sid, stateid |-> IndexOf(src2[source].state, state)]

\* the keys of order that are in S, in the order they have there
KeysAmong(order, S) ==
    LET at == [k \in S |-> CHOOSE i \in 1..Len(order) : order[i] = k]
    IN [i \in 1..Cardinality(S) |->
           CHOOSE k \in S : Cardinality({m \in S : at[m] < at[k]}) = i - 1]

\* the orders _sources can iterate in once the keys names are in it too,
\* order being its order before: a new key lands in any free slot, between
\* the keys that are there, and when an insertion rebuilds the table every
\* key lands in a slot of the new one
OrdersWith(order, names) ==
    LET old == {order[i] : i \in 1..Len(order)}
        all == old \cup names
    IN IF all = old THEN {order}
       ELSE IF \E n \in (Len(order) + 1)..Cardinality(all) :
                   DictSlots(n) # DictSlots(n - 1)
       THEN KeyOrders(all)
       ELSE {o \in KeyOrders(all) : KeysAmong(o, old) = order}

\* sid, stateid = self._createDataStructure(source, state) on the object f:
\* f with the source and the state registered, and the two ids, for every
\* order the _sources dict may iterate in afterwards
Created(f, source, state) ==
    {[f |-> [f EXCEPT !.sources = ds.sources, !.values = ds.values,
                      !.keyOrder = o],
      sid |-> ds.sid, stateid |-> ds.stateid] :
        ds \in {CreateDataStructure(f.sources, f.values, source, state)},
        o \in OrdersWith(f.keyOrder, {source})}

----------------------------------------------------------------------------
(* The setters of one value.  A method is an operator on the object f and   *)
(* the arguments a of the call, whose value is the set of the objects the   *)
(* call may leave, each with the outcome of the call (ok or the exception   *)
(* raised) and what it returned.                                            *)

\* self._values[sid][stateid][hoy][ind] = value
\* a list sample takes the item; a tuple sample raises TypeError
SetItem(series, hoy, ind, value) ==
    LET s1 == Touch(series, hoy)
    IN IF s1[hoy].kind = "tuple"
       THEN [series |-> s1, outcome |-> "TypeError"]
       ELSE [series |-> [s1 EXCEPT ![hoy].v[ind + 1] = value], outcome |-> "ok"]

\* the object f after the assignment w to the series (sid, stateid)
Written(f, w, sid, stateid) ==
    [f EXCEPT !.values = WithSeries(@, sid, stateid, w.series),
              !.outcome = w.outcome, !.ret = None]

setValue(f, a) ==
    {Written([c.f EXCEPT !.isDirectLoaded = @ \/ a.isDirect],
             SetItem(Series(c.f.values, c.sid, c.stateid), a.hoy,
                     IF a.isDirect THEN 1 ELSE 0, a.value),
             c.sid, c.stateid) :
        c \in Created(f, a.source, a.state)}

\* ...[hoy] = value[0], value[1]
\* value is [scalar, items]: a number raises TypeError, a sequence shorter
\* than 2 raises IndexError; both are re-raised as ValueError
SetCoupled(series, hoy, value) ==
    IF value.scalar \/ Len(value.items) < 2
    THEN [series |-> series, outcome |-> "ValueError"]
    ELSE [series |-> Put(series, hoy,
                         [kind |-> "tuple",
                          v |-> <<value.items[1], value.items[2]>>]),
          outcome |-> "ok"]

\* the flag is set in the else branch of the try, after the assignment
setCoupledValue(f, a) ==
    {[w EXCEPT !.isDirectLoaded = @ \/ w.outcome = "ok"] :
        w \in {Written(c.f,
                       SetCoupled(Series(c.f.values, c.sid, c.stateid),
                                  a.hoy, a.value),
                       c.sid, c.stateid) :
                  c \in Created(f, a.source, a.state)}}

----------------------------------------------------------------------------
(* Name resolution *)

\* sourceId: the id, or ValueError for an unknown name
sourceId(srcs, source) ==
    IF source \in DOMAIN srcs
    THEN [outcome |-> "ok", id |-> srcs[source].id]
    ELSE [outcome |-> "ValueError", id |-> None]

\* blindStateId: a digit string is used verbatim as the index; any other
\* name is looked up in the state list of the source (a KeyError when the
\* source is unknown, which no reader lets happen: sourceId comes first)
blindStateId(srcs, source, state) ==
    IF IsDigit(state) THEN [outcome |-> "ok", id |-> ToInt(state)]
    ELSE IF source \notin DOMAIN srcs
    THEN [outcome |-> "KeyError", id |-> None]
    ELSE IF InList(srcs[source].state, state)
         THEN [outcome |-> "ok", id |-> IndexOf(srcs[source].state, state)]
         ELSE [outcome |-> "ValueError", id |-> None]

\* self._values[sid][stateid] exists (list indexing, ids >= 0)
HasSeries(vals, sid, stateid) ==
    /\ sid + 1 \in 1..Len(vals)
    /\ stateid + 1 \in 1..Len(vals[sid + 1])

----------------------------------------------------------------------------
(* Readers by name: value, directValue, coupledValue and their batch forms. *)
(* A reader is an operator on the object s: its value is the outcome, what  *)
(* it returned and the series as it leaves them.                            *)

\* what a reader returns from a sample: slot 0, slot 1 or both
Pick(sample, slot) == IF slot = 2 THEN sample.v ELSE sample.v[slot + 1]

RECURSIVE TouchAll(_, _, _)
TouchAll(series, hs, i) ==
    IF i > Len(hs) THEN series ELSE TouchAll(Touch(series, hs[i]), hs, i + 1)

\* the common body of value, directValue and coupledValue: the hour is
\* looked up in the defaultdict, so only a bad source or state can fail
ReadOne(s, hoy, source, state, slot) ==
    LET sid == sourceId(s.sources, source)
        st == blindStateId(s.sources, source, state)
    IN IF sid.outcome # "ok"
       THEN [outcome |-> sid.outcome, ret |-> None, values |-> s.values]
       ELSE IF st.outcome # "ok"
       THEN [outcome |-> st.outcome, ret |-> None, values |-> s.values]
       ELSE IF ~HasSeries(s.values, sid.id, st.id)
       THEN [outcome |-> "IndexError", ret |-> None, values |-> s.values]
       ELSE LET series == Touch(Series(s.values, sid.id, st.id), hoy)
            IN [outcome |-> "ok", ret |-> Pick(series[hoy], slot),
                values |-> WithSeries(s.values, sid.id, st.id, series)]

\* the common body of values, directValues and coupledValues: the series is
\* looked up inside the generator expression, once per hour, so an empty
\* list of hours never reaches it
ReadMany(s, hs, source, state, slot) ==
    LET sid == sourceId(s.sources, source)
        st == blindStateId(s.sources, source, state)
    IN IF sid.outcome # "ok"
       THEN [outcome |-> sid.outcome, ret |-> None, values |-> s.values]
       ELSE IF st.outcome # "ok"
       THEN [outcome |-> st.outcome, ret |-> None, values |-> s.values]
       ELSE IF Len(hs) = 0
       THEN [outcome |-> "ok", ret |-> <<>>, values |-> s.values]
       ELSE IF ~HasSeries(s.values, sid.id, st.id)
       THEN [outcome |-> "IndexError", ret |-> None, values |-> s.values]
       ELSE LET series == TouchAll(Series(s.values, sid.id, st.id), hs, 1)
            IN [outcome |-> "ok",
                ret |-> [i \in 1..Len(hs) |-> Pick(series[hs[i]], slot)],
                values |-> WithSeries(s.values, sid.id, st.id, series)]

value(s, hoy, source, state) == ReadOne(s, hoy, source, state, 0)

directValue(s, hoy, source, state) == ReadOne(s, hoy, source, state, 1)

coupledValue(s, hoy, source, state) == ReadOne(s, hoy, source, state, 2)

valuesOf(s, hs, source, state) == ReadMany(s, hs, source, state, 0)

directValues(s, hs, source, state) == ReadMany(s, hs, source, state, 1)

coupledValues(s, hs, source, state) == ReadMany(s, hs, source, state, 2)

----------------------------------------------------------------------------
(* Readers by id: every failure is re-raised as ValueError *)

OrZero(id) == IF id = None THEN 0 ELSE id

coupledValueById(s, hoy, srcId, stId) ==
    LET sid == OrZero(srcId)
        stateid == OrZero(stId)
    IN IF ~HasSeries(s.values, sid, stateid)
       THEN [outcome |-> "ValueError", ret |-> None, values |-> s.values]
       ELSE LET series == Touch(Series(s.values, sid, stateid), hoy)
            IN [outcome |-> "ok", ret |-> series[hoy].v,
                values |-> WithSeries(s.values, sid, stateid, series)]

coupledValuesById(s, hs, srcId, stId) ==
    LET sid == OrZero(srcId)
        stateid == OrZero(stId)
    IN IF Len(hs) = 0
       THEN [outcome |-> "ok", ret |-> <<>>, values |-> s.values]
       ELSE IF ~HasSeries(s.values, sid, stateid)
       THEN [outcome |-> "ValueError", ret |-> None, values |-> s.values]
       ELSE LET series == TouchAll(Series(s.values, sid, stateid), hs, 1)
            IN [outcome |-> "ok",
                ret |-> [i \in 1..Len(hs) |-> series[hs[i]].v],
                values |-> WithSeries(s.values, sid, stateid, series)]

----------------------------------------------------------------------------
(* Combined values over all sources *)

Zeros(n) == [i \in 1..n |-> 0]

Repeat(x, n) == [i \in 1..n |-> x]

\* "not x" for an optional list argument: None and the empty list are both
\* falsy, and both are written <<>>
Falsy(x) == x = <<>>

RECURSIVE CombineFromLast(_, _, _, _, _, _)
\* the loop of combinedValueById without its "if stateid == -1" branch: -1 is
\* then the index of the last state of the source, as in any Python list
CombineFromLast(vals, hoy, row, i, total, direct) ==
    IF i > Len(row)
    THEN [outcome |-> "ok", ret |-> <<total, direct>>, values |-> vals]
    ELSE LET stateid == IF row[i] = -1 THEN Len(vals[i]) - 1 ELSE row[i]
         IN IF ~HasSeries(vals, i - 1, stateid)
            THEN [outcome |-> "ValueError", ret |-> None, values |-> vals]
            ELSE LET series == Touch(Series(vals, i - 1, stateid), hoy)
                     t == series[hoy].v[1]
                     d == series[hoy].v[2]
                     vals1 == WithSeries(vals, i - 1, stateid, series)
                 IN IF t = None
                    THEN CombineFromLast(vals1, hoy, row, i + 1, total, direct)
                    ELSE IF direct = None \/ d = None
                    THEN CombineFromLast(vals1, hoy, row, i + 1, total + t, direct)
                    ELSE CombineFromLast(vals1, hoy, row, i + 1,
                                         total + t, direct + d)

RECURSIVE CombineFrom(_, _, _, _, _, _)
\* for sid, stateid in enumerate(row): one step per source id i - 1.
\* -1 adds (0, 0); any failure to fetch the sample is ValueError; a None in
\* "total += t; direct += d" raises TypeError, which is swallowed and skips
\* the rest of the two additions.
CombineFrom(vals, hoy, row, i, total, direct) ==
    IF i > Len(row)
    THEN [outcome |-> "ok", ret |-> <<total, direct>>, values |-> vals]
    ELSE IF row[i] = -1
    THEN CombineFrom(vals, hoy, row, i + 1, total + 0,
                     IF direct = None THEN None ELSE direct + 0)
    ELSE IF ~HasSeries(vals, i - 1, row[i])
    THEN [outcome |-> "ValueError", ret |-> None, values |-> vals]
    ELSE LET series == Touch(Series(vals, i - 1, row[i]), hoy)
             t == series[hoy].v[1]
             d == series[hoy].v[2]
             vals1 == WithSeries(vals, i - 1, row[i], series)
         IN IF t = None
            THEN CombineFrom(vals1, hoy, row, i + 1, total, direct)
            ELSE IF direct = None \/ d = None
            THEN CombineFrom(vals1, hoy, row, i + 1, total + t, direct)
            ELSE CombineFrom(vals1, hoy, row, i + 1, total + t, direct + d)

\* 0 if self._isDirectLoaded else None
Direct0(direct) == IF direct THEN 0 ELSE None

combinedValueById(s, hoy, blindsStateIds) ==
    LET ids == IF Falsy(blindsStateIds)
               THEN Zeros(Cardinality(DOMAIN s.sources))
               ELSE blindsStateIds
    IN IF Cardinality(DOMAIN s.sources) # Len(ids)
       THEN [outcome |-> "AssertionError", ret |-> None, values |-> s.values]
       ELSE CombineFrom(s.values, hoy, ids, 1, 0, Direct0(s.isDirectLoaded))

RECURSIVE CombineHours(_, _, _, _, _, _)
\* for hoy in hoys: the row is blindsStateIds[hoy], indexed by the hour
\* itself; past the end of the matrix that is an IndexError
CombineHours(vals, hs, matrix, i, out, dirValue) ==
    IF i > Len(hs) THEN [outcome |-> "ok", ret |-> out, values |-> vals]
    ELSE IF hs[i] + 1 \notin 1..Len(matrix)
    THEN [outcome |-> "IndexError", ret |-> None, values |-> vals]
    ELSE LET r == CombineFrom(vals, hs[i], matrix[hs[i] + 1], 1, 0, dirValue)
         IN IF r.outcome # "ok" THEN r
            ELSE CombineHours(r.values, hs, matrix, i + 1, Append(out, r.ret),
                              dirValue)

\* the generator consumed to its end in one go, as blindsState and the metrics
\* do with tuple(self.combinedValuesById(..))
combinedValuesById(s, hoysArg, blindsStateIds) ==
    LET hs == IF Falsy(hoysArg) THEN HoysOf(s.values) ELSE hoysArg
        matrix == IF Falsy(blindsStateIds)
                  THEN Repeat(Zeros(Cardinality(DOMAIN s.sources)), Len(hs))
                  ELSE blindsStateIds
    IN IF Len(hs) # Len(matrix)
       THEN [outcome |-> "AssertionError", ret |-> None, values |-> s.values]
       ELSE CombineHours(s.values, hs, matrix, 1, <<>>,
                         Direct0(s.isDirectLoaded))

----------------------------------------------------------------------------
(* combinedValuesById as its caller sees it: a generator *)

\* what a combinedValuesById call returns
GeneratorObject == -2000

\* the call runs nothing of the body: it binds the arguments
NewGenerator(hoysArg, blindsStateIds) ==
    [NoGenerator EXCEPT !.state = "created", !.hoys = hoysArg,
                        !.blindsStateIds = blindsStateIds]

\* a generator that raised or returned: its frame is gone
Closed(g) == [NoGenerator EXCEPT !.state = "closed", !.hoys = g.hoys,
                                 !.blindsStateIds = g.blindsStateIds]

\* the body up to the loop, run by the first next(): the defaults, the assert
\* and dirValue are taken from the store as it is then
GenStart(g, srcs, vals, direct) ==
    LET hs == IF Falsy(g.hoys) THEN HoysOf(vals) ELSE g.hoys
        matrix == IF Falsy(g.blindsStateIds)
                  THEN Repeat(Zeros(Cardinality(DOMAIN srcs)), Len(hs))
                  ELSE g.blindsStateIds
    IN IF Len(hs) # Len(matrix)
       THEN [outcome |-> "AssertionError", gen |-> Closed(g)]
       ELSE [outcome |-> "ok",
             gen |-> [g EXCEPT !.state = "suspended", !.hs = hs,
                               !.matrix = matrix,
                               !.dirValue = Direct0(direct),
                               !.i = 1]]

\* one turn of "for hoy in hoys" on the store as it is now, up to the yield;
\* past the last hour the generator returns, which is StopIteration
GenStep(g, vals) ==
    IF g.i > Len(g.hs)
    THEN [outcome |-> "StopIteration", ret |-> None, values |-> vals,
          gen |-> Closed(g)]
    ELSE IF g.hs[g.i] + 1 \notin 1..Len(g.matrix)
    THEN [outcome |-> "IndexError", ret |-> None, values |-> vals,
          gen |-> Closed(g)]
    ELSE LET r == CombineFrom(vals, g.hs[g.i], g.matrix[g.hs[g.i] + 1],
                              1, 0, g.dirValue)
         IN IF r.outcome # "ok"
            THEN [outcome |-> r.outcome, ret |-> None, values |-> r.values,
                  gen |-> Closed(g)]
            ELSE [outcome |-> "ok", ret |-> r.ret, values |-> r.values,
                  gen |-> [g EXCEPT !.i = g.i + 1]]

\* next(g) on the store (srcs, vals, direct): a generator that raised or
\* returned is closed and stops at once
nextOn(g, srcs, vals, direct) ==
    IF g.state = "closed"
    THEN [outcome |-> "StopIteration", ret |-> None, values |-> vals, gen |-> g]
    ELSE IF g.state = "created"
    THEN LET started == GenStart(g, srcs, vals, direct)
         IN IF started.outcome # "ok"
            THEN [outcome |-> started.outcome, ret |-> None, values |-> vals,
                  gen |-> started.gen]
            ELSE GenStep(started.gen, vals)
    ELSE GenStep(g, vals)

----------------------------------------------------------------------------
(* State combinations *)

Min(a, b) == IF a < b THEN a ELSE b

\* states: number of states minus one per source, in the iteration order
\* of the _sources dictionary
StateMaxima(s) ==
    [i \in 1..Len(s.keyOrder) |-> Len(s.sources[s.keyOrder[i]].state) - 1]

MaxOf(seq) == CHOOSE m \in {seq[i] : i \in 1..Len(seq)} :
                  \A i \in 1..Len(seq) : seq[i] <= m

\* longestStateIds; max() of no sources is a ValueError
longestStateIds(s) ==
    IF Len(s.keyOrder) = 0
    THEN [outcome |-> "ValueError", ret |-> None, values |-> s.values]
    ELSE LET states == StateMaxima(s)
         IN [outcome |-> "ok",
             ret |-> [i \in 1..(MaxOf(states) + 1) |->
                        [k \in 1..Len(states) |-> Min(states[k], i - 1)]],
             values |-> s.values]

----------------------------------------------------------------------------
(* Blinds state selection *)

LogicLimit == 2000

\* self.logic(ill, ill_dir, h, args, kwargs): "default" is _logic, the other
\* two are replacements a caller may plug in
Logic(kind, ill, illDir, h) ==
    CASE kind = "default" -> ill > LogicLimit
      [] kind = "always" -> TRUE
      [] kind = "lit" -> ill > 0

RECURSIVE SplitComma(_, _, _)
\* s.split(","): cur is the piece being read, i the next character
SplitComma(s, i, cur) ==
    IF i > Len(s) THEN <<cur>>
    ELSE IF s[i] = "," THEN <<cur>> \o SplitComma(s, i + 1, <<>>)
    ELSE SplitComma(s, i + 1, Append(cur, s[i]))

RECURSIVE Strip(_)
\* s.strip() for blanks
Strip(s) == IF Len(s) > 0 /\ s[1] = " " THEN Strip(Tail(s))
            ELSE IF Len(s) > 0 /\ s[Len(s)] = " "
            THEN Strip(SubSeq(s, 1, Len(s) - 1))
            ELSE s

\* [c.strip() for c in str(cc).split(",")]
Tokens(cc) == LET parts == SplitComma(cc, 1, <<>>)
              IN [i \in 1..Len(parts) |-> Strip(parts[i])]

\* a token left unresolved in combIds (the combination names more states
\* than there are sources); it is no state id
Unresolved == -2

\* the state ids of one combination, or the error raised while resolving it
ResolveComb(s, comb) ==
    LET srcs == SourcesById(s.sources)
        n == Len(srcs)
        bad == {k \in 1..n :
                   k > Len(comb)
                   \/ blindStateId(s.sources, srcs[k], comb[k]).outcome # "ok"}
    IN IF bad # {}
       THEN [outcome |-> "ValueError", ids |-> <<>>]
       ELSE [outcome |-> "ok",
             ids |-> [k \in 1..Len(comb) |->
                        IF k <= n
                        THEN blindStateId(s.sources, srcs[k], comb[k]).id
                        ELSE Unresolved]]

\* combIds: the given combinations resolved to ids, or longestStateIds
CombIds(s, candidates) ==
    IF ~Falsy(candidates)
    THEN LET rs == [c \in 1..Len(candidates) |->
                      ResolveComb(s, Tokens(candidates[c]))]
         IN IF \E c \in 1..Len(rs) : rs[c].outcome # "ok"
            THEN [outcome |-> "ValueError", ret |-> None]
            ELSE [outcome |-> "ok", ret |-> [c \in 1..Len(rs) |-> rs[c].ids]]
    ELSE [outcome |-> longestStateIds(s).outcome, ret |-> longestStateIds(s).ret]

RECURSIVE CollectResults(_, _, _, _, _)
\* results[count] = tuple(self.combinedValuesById(hoys, [state] * len(hoys)))
CollectResults(s, hs, combIds, c, out) ==
    IF c > Len(combIds) THEN [outcome |-> "ok", ret |-> out, values |-> s.values]
    ELSE LET r == combinedValuesById(s, hs, Repeat(combIds[c], Len(hs)))
         IN IF r.outcome # "ok" THEN r
            ELSE CollectResults([s EXCEPT !.values = r.values], hs, combIds,
                                c + 1, Append(out, r.ret))

\* the first state whose values do not satisfy the logic, 0 if there is none
\* (states are numbered from 1 here); results[state][h] is read by hour
FirstRejected(kind, results, h) ==
    LET ok == {st \in 1..Len(results) :
                  ~Logic(kind, results[st][h + 1][1], results[st][h + 1][2], h)}
    IN IF ok = {} THEN 0 ELSE CHOOSE st \in ok : \A o \in ok : st <= o

RECURSIVE SelectHours(_, _, _, _, _)
\* for h in hoys: every list is written at index h, the hour itself
SelectHours(kind, results, hs, i, out) ==
    IF i > Len(hs) THEN [outcome |-> "ok", ret |-> out]
    ELSE LET h == hs[i]
             n == Len(results)
         IN IF h + 1 \notin 1..Len(hs)
            THEN [outcome |-> "IndexError", ret |-> None]
            ELSE LET st == FirstRejected(kind, results, h)
                     pick == IF st = 0 THEN n ELSE st
                     out1 ==
                       [blindsIndex |->
                            IF st = 0 THEN out.blindsIndex
                            ELSE [out.blindsIndex EXCEPT ![h + 1] = st - 1],
                        illValues |->
                            [out.illValues EXCEPT ![h + 1] = results[pick][h + 1][1]],
                        dirValues |->
                            [out.dirValues EXCEPT ![h + 1] = results[pick][h + 1][2]],
                        success |->
                            [out.success EXCEPT ![h + 1] =
                                IF st = 0 THEN -1 ELSE IF st > 1 THEN 1 ELSE @]]
                 IN SelectHours(kind, results, hs, i + 1, out1)

blindsState(s, hoysArg, candidates, kind) ==
    LET hs == IF Falsy(hoysArg) THEN HoysOf(s.values) ELSE hoysArg
        start(n) == [blindsIndex |-> Repeat(n - 1, Len(hs)),
                     illValues |-> Repeat(None, Len(hs)),
                     dirValues |-> Repeat(None, Len(hs)),
                     success |-> Repeat(0, Len(hs))]
        Selected(combs, res, sel) ==
            IF sel.outcome # "ok"
            THEN [outcome |-> sel.outcome, ret |-> None, values |-> res.values]
            ELSE [outcome |-> "ok",
                  ret |-> [blindsState |->
                              [i \in 1..Len(hs) |->
                                  combs.ret[sel.ret.blindsIndex[i] + 1]],
                           blindsIndex |-> sel.ret.blindsIndex,
                           illValues |-> sel.ret.illValues,
                           dirValues |-> sel.ret.dirValues,
                           success |-> sel.ret.success],
                  values |-> res.values]
        Collected(combs, res) ==
            IF res.outcome # "ok"
            THEN [outcome |-> res.outcome, ret |-> None, values |-> res.values]
            ELSE Selected(combs, res,
                          SelectHours(kind, res.ret, hs, 1,
                                      start(Len(combs.ret))))
        Resolved(combs) ==
            IF combs.outcome # "ok"
            THEN [outcome |-> combs.outcome, ret |-> None, values |-> s.values]
            ELSE Collected(combs, CollectResults(s, hs, combs.ret, 1, <<>>))
    IN Resolved(CombIds(s, candidates))

----------------------------------------------------------------------------
(* Annual metrics *)

DefaultDAThreshhold == 300
DefaultUDIMin == 100
DefaultUDIMax == 2000

\* DAThreshhold or 300.0: None and 0 are falsy
Threshhold(t) == IF t = None \/ t = 0 THEN DefaultDAThreshhold ELSE t

\* UDIMinMax or (100, 2000): None and the empty tuple are written <<>>
MinMax(b) == IF Falsy(b) THEN <<DefaultUDIMin, DefaultUDIMax>> ELSE b

\* occSchedule or set(hours): None and the empty set are written {}
Schedule(occ, hours) == IF occ = {} THEN {hours[i] : i \in 1..Len(hours)} ELSE occ

\* tuple(v[0] for v in self.combinedValuesById(hours, blindsStateIds))
Totals(pairs) == [i \in 1..Len(pairs) |-> pairs[i][1]]

\* the values that pass "if v not in schedule: continue"
InSchedule(vs, schedule) == SelectSeq(vs, LAMBDA v : v \in schedule)

CountIf(vs, P(_)) == Len(SelectSeq(vs, P))

RECURSIVE Credit(_, _, _)
\* the sum of the CDA credits of vs, in units of 1/thr: an hour at or above
\* the threshold adds 1 = thr/thr, an hour below it adds v/thr
Credit(vs, thr, i) ==
    IF i > Len(vs) THEN 0
    ELSE (IF vs[i] >= thr THEN thr ELSE vs[i]) + Credit(vs, thr, i + 1)

\* a / b of the true division, kept exact as <<numerator, denominator>>
Ratio(a, b) == <<a, b>>

daylightAutonomy(s, DAThreshhold, blindsStateIds, occSchedule) ==
    LET thr == Threshhold(DAThreshhold)
        hours == HoysOf(s.values)
        schedule == Schedule(occSchedule, hours)
        Over(r) ==
            IF r.outcome # "ok" THEN r
            ELSE LET vs == InSchedule(Totals(r.ret), schedule)
                     totalHourCount == Len(vs)
                     DA == CountIf(vs, LAMBDA v : v >= thr)
                 IN IF totalHourCount = 0
                    THEN [outcome |-> "ZeroDivisionError", ret |-> None,
                          values |-> r.values]
                    ELSE [outcome |-> "ok",
                          ret |-> [DA |-> Ratio(DA, totalHourCount),
                                   CDA |-> Ratio(Credit(vs, thr, 1),
                                                 thr * totalHourCount)],
                          values |-> r.values]
    IN Over(combinedValuesById(s, hours, blindsStateIds))

\* usefulDaylightIlluminance as it would be with "<=" and ">=" for "<" and ">":
\* a value on a bound leaves the UDI bucket
usefulDaylightIlluminanceOpen(s, UDIMinMax, blindsStateIds, occSchedule) ==
    LET udiMin == MinMax(UDIMinMax)[1]
        udiMax == MinMax(UDIMinMax)[2]
        hours == HoysOf(s.values)
        schedule == Schedule(occSchedule, hours)
        Over(r) ==
            IF r.outcome # "ok" THEN r
            ELSE LET vs == InSchedule(Totals(r.ret), schedule)
                     totalHourCount == Len(vs)
                     UDI_l == CountIf(vs, LAMBDA v : v <= udiMin)
                     UDI_m == CountIf(vs, LAMBDA v : ~(v <= udiMin) /\ v >= udiMax)
                     UDI == CountIf(vs, LAMBDA v : ~(v <= udiMin) /\ ~(v >= udiMax))
                 IN IF totalHourCount = 0
                    THEN [outcome |-> "ZeroDivisionError", ret |-> None,
                          values |-> r.values]
                    ELSE [outcome |-> "ok",
                          ret |-> [UDI |-> Ratio(UDI, totalHourCount),
                                   UDI_l |-> Ratio(UDI_l, totalHourCount),
                                   UDI_m |-> Ratio(UDI_m, totalHourCount)],
                          values |-> r.values]
    IN Over(combinedValuesById(s, hours, blindsStateIds))

usefulDaylightIlluminance(s, UDIMinMax, blindsStateIds, occSchedule) ==
    LET udiMin == MinMax(UDIMinMax)[1]
        udiMax == MinMax(UDIMinMax)[2]
        hours == HoysOf(s.values)
        schedule == Schedule(occSchedule, hours)
        Over(r) ==
            IF r.outcome # "ok" THEN r
            ELSE LET vs == InSchedule(Totals(r.ret), schedule)
                     totalHourCount == Len(vs)
                     UDI_l == CountIf(vs, LAMBDA v : v < udiMin)
                     UDI_m == CountIf(vs, LAMBDA v : ~(v < udiMin) /\ v > udiMax)
                     UDI == CountIf(vs, LAMBDA v : ~(v < udiMin) /\ ~(v > udiMax))
                 IN IF totalHourCount = 0
                    THEN [outcome |-> "ZeroDivisionError", ret |-> None,
                          values |-> r.values]
                    ELSE [outcome |-> "ok",
                          ret |-> [UDI |-> Ratio(UDI, totalHourCount),
                                   UDI_l |-> Ratio(UDI_l, totalHourCount),
                                   UDI_m |-> Ratio(UDI_m, totalHourCount)],
                          values |-> r.values]
    IN Over(combinedValuesById(s, hours, blindsStateIds))

annualMetrics(s, DAThreshhold, UDIMinMax, blindsStateIds, occSchedule) ==
    LET thr == Threshhold(DAThreshhold)
        udiMin == MinMax(UDIMinMax)[1]
        udiMax == MinMax(UDIMinMax)[2]
        hours == HoysOf(s.values)
        schedule == Schedule(occSchedule, hours)
        Over(r) ==
            IF r.outcome # "ok" THEN r
            ELSE LET vs == InSchedule(Totals(r.ret), schedule)
                     totalHourCount == Len(vs)
                     DA == CountIf(vs, LAMBDA v : v >= thr)
                     UDI_l == CountIf(vs, LAMBDA v : v < udiMin)
                     UDI_m == CountIf(vs, LAMBDA v : ~(v < udiMin) /\ v > udiMax)
                     UDI == CountIf(vs, LAMBDA v : ~(v < udiMin) /\ ~(v > udiMax))
                 IN IF totalHourCount = 0
                    THEN [outcome |-> "ZeroDivisionError", ret |-> None,
                          values |-> r.values]
                    ELSE [outcome |-> "ok",
                          ret |-> [DA |-> Ratio(DA, totalHourCount),
                                   CDA |-> Ratio(Credit(vs, thr, 1),
                                                 thr * totalHourCount),
                                   UDI |-> Ratio(UDI, totalHourCount),
                                   UDI_l |-> Ratio(UDI_l, totalHourCount),
                                   UDI_m |-> Ratio(UDI_m, totalHourCount)],
                          values |-> r.values]
    IN Over(combinedValuesById(s, hours, blindsStateIds))

----------------------------------------------------------------------------
(* The batch setters.  An argument of values or hoys that is a generator is  *)
(* its items and its body: calls[k] is the sequence of the calls the body    *)
(* makes on the object before its k-th yield (before it returns, for k past  *)
(* the last item).  The body runs inside the setter, between the writes of   *)
(* the loop, and may call any method of the object, the batch setters        *)
(* included.                                                                 *)

\* a generator whose body only yields, and a list
NoCalls == [hoys |-> <<>>, values |-> <<>>]

RECURSIVE Apply(_, _)

RECURSIVE RunCalls(_, _, _)
\* the calls cs[j], cs[j + 1], .. of a generator's body, up to the first
\* that raises; made lists the calls in the order they were entered
RunCalls(f, cs, j) ==
    IF j > Len(cs) THEN {f}
    ELSE UNION {IF r.outcome # "ok" THEN {r} ELSE RunCalls(r, cs, j + 1) :
                r \in Apply([f EXCEPT !.made = Append(@, cs[j])], cs[j])}

\* next() on an argument for the k-th time: a list gives its k-th item, a
\* generator first runs its body up to the k-th yield; past the last item
\* it is StopIteration
NextItem(f, items, calls, isGenerator, k) ==
    {IF f1.outcome # "ok" THEN [f |-> f1, item |-> None]
     ELSE IF k > Len(items)
     THEN [f |-> [f1 EXCEPT !.outcome = "StopIteration"], item |-> None]
     ELSE [f |-> f1, item |-> items[k]] :
        f1 \in IF isGenerator /\ k \in DOMAIN calls
               THEN RunCalls(f, calls[k], 1) ELSE {f}}

\* izip(hoys, values).next() for the k-th time: the hour, then the value.
\* With "combined" in a.generators the values are drawn from the generator
\* the caller held, f.gens[own], on the object as it is then.
NextPair(f, a, own, k) ==
    UNION {IF h.f.outcome # "ok"
           THEN {[f |-> h.f, hoy |-> None, value |-> None]}
           ELSE IF "combined" \in a.generators
           THEN {[f |-> [h.f EXCEPT !.values = n.values, !.gens[own] = n.gen,
                                    !.outcome = n.outcome],
                  hoy |-> h.item, value |-> n.ret] :
                    n \in {nextOn(h.f.gens[own], h.f.sources, h.f.values,
                                  h.f.isDirectLoaded)}}
           ELSE {[f |-> v.f, hoy |-> h.item, value |-> v.item] :
                    v \in NextItem(h.f, a.values, a.calls.values,
                                   "values" \in a.generators, k)} :
           h \in NextItem(f, a.hoys, a.calls.hoys, "hoys" \in a.generators, k)}

RECURSIVE PullItems(_, _, _, _, _, _, _)
\* for hoy, value in izip(hoys, values): ...[hoy][ind] = value
\* from "combined" the values are (t + a.values[1] for t, d in g); a
\* StopIteration, a body's own included, ends the loop
PullItems(f, a, own, sid, stateid, ind, k) ==
    UNION {IF p.f.outcome = "StopIteration"
           THEN {[p.f EXCEPT !.outcome = "ok", !.ret = None]}
           ELSE IF p.f.outcome # "ok" THEN {[p.f EXCEPT !.ret = None]}
           ELSE UNION {IF f1.outcome # "ok" THEN {f1}
                       ELSE PullItems(f1, a, own, sid, stateid, ind, k + 1) :
                       f1 \in {Written(p.f,
                                       SetItem(Series(p.f.values, sid, stateid),
                                               p.hoy, ind,
                                               IF "combined" \in a.generators
                                               THEN p.value[1] + a.values[1]
                                               ELSE p.value),
                                       sid, stateid)}} :
           p \in NextPair(f, a, own, k)}

\* a.generators names the arguments, of values and hoys, that are generators:
\* the lengths are compared only when neither is one, and izip stops at the
\* end of the shorter
setValues(f, a) ==
    IF a.generators = {} /\ Len(a.values) # Len(a.hoys)
    THEN {[f EXCEPT !.outcome = "AssertionError", !.ret = None]}
    ELSE UNION {PullItems([c.f EXCEPT !.isDirectLoaded = @ \/ a.isDirect],
                          a, Len(f.gens), c.sid, c.stateid,
                          IF a.isDirect THEN 1 ELSE 0, 1) :
                c \in Created(f, a.source, a.state)}

RECURSIVE PullCoupledItems(_, _, _, _, _, _)
\* for hoy, value in izip(hoys, values): ...[hoy] = value[0], value[1]
\* from "combined" the values are the pairs g yields
PullCoupledItems(f, a, own, sid, stateid, k) ==
    UNION {IF p.f.outcome = "StopIteration"
           THEN {[p.f EXCEPT !.outcome = "ok", !.ret = None]}
           ELSE IF p.f.outcome # "ok" THEN {[p.f EXCEPT !.ret = None]}
           ELSE UNION {IF f1.outcome # "ok" THEN {f1}
                       ELSE PullCoupledItems(f1, a, own, sid, stateid, k + 1) :
                       f1 \in {Written(p.f,
                                       SetCoupled(Series(p.f.values, sid, stateid),
                                                  p.hoy,
                                                  IF "combined" \in a.generators
                                                  THEN [scalar |-> FALSE,
                                                        items |-> p.value]
                                                  ELSE p.value),
                                       sid, stateid)}} :
           p \in NextPair(f, a, own, k)}

\* the flag is set when the loop has ended without an exception
setCoupledValues(f, a) ==
    IF a.generators = {} /\ Len(a.values) # Len(a.hoys)
    THEN {[f EXCEPT !.outcome = "AssertionError", !.ret = None]}
    ELSE {[r EXCEPT !.isDirectLoaded = @ \/ r.outcome = "ok"] :
            r \in UNION {PullCoupledItems(c.f, a, Len(f.gens), c.sid,
                                          c.stateid, 1) :
                         c \in Created(f, a.source, a.state)}}

----------------------------------------------------------------------------
(* A call of a method on the object, by its caller or by the body of a      *)
(* generator the caller passed to a batch setter                            *)

\* the object f after a reader returned r
Returned(f, r) ==
    [f EXCEPT !.values = r.values, !.outcome = r.outcome, !.ret = r.ret]

\* self.<c.op>(**c.args) on the object f.  combinedValuesById hands a new
\* generator to the caller; next() is on the generator the caller holds.
Apply(f, c) ==
    LET a == c.args
    IN CASE c.op = "setValue" -> setValue(f, a)
         [] c.op = "setValues" -> setValues(f, a)
         [] c.op = "setCoupledValue" -> setCoupledValue(f, a)
         [] c.op = "setCoupledValues" -> setCoupledValues(f, a)
         [] c.op = "sourceId" ->
              {[f EXCEPT !.outcome = r.outcome, !.ret = r.id] :
                 r \in {sourceId(f.sources, a.source)}}
         [] c.op = "blindStateId" ->
              {[f EXCEPT !.outcome = r.outcome, !.ret = r.id] :
                 r \in {blindStateId(f.sources, a.source, a.state)}}
         [] c.op = "value" ->
              {Returned(f, value(f, a.hoy, a.source, a.state))}
         [] c.op = "directValue" ->
              {Returned(f, directValue(f, a.hoy, a.source, a.state))}
         [] c.op = "coupledValue" ->
              {Returned(f, coupledValue(f, a.hoy, a.source, a.state))}
         [] c.op = "values" ->
              {Returned(f, valuesOf(f, a.hoys, a.source, a.state))}
         [] c.op = "directValues" ->
              {Returned(f, directValues(f, a.hoys, a.source, a.state))}
         [] c.op = "coupledValues" ->
              {Returned(f, coupledValues(f, a.hoys, a.source, a.state))}
         [] c.op = "coupledValueById" ->
              {Returned(f, coupledValueById(f, a.hoy, a.sourceId, a.stateId))}
         [] c.op = "coupledValuesById" ->
              {Returned(f, coupledValuesById(f, a.hoys, a.sourceId, a.stateId))}
         [] c.op = "combinedValueById" ->
              {Returned(f, combinedValueById(f, a.hoy, a.blindsStateIds))}
         [] c.op = "combinedValuesById" ->
              {[f EXCEPT !.gens = Append(@, NewGenerator(a.hoys, a.blindsStateIds)),
                         !.outcome = "ok", !.ret = GeneratorObject]}
         [] c.op = "next" ->
              {[f EXCEPT !.values = n.values, !.gens[Len(f.gens)] = n.gen,
                         !.outcome = n.outcome, !.ret = n.ret] :
                 n \in {nextOn(g, f.sources, f.values, f.isDirectLoaded) :
                          g \in {h \in {f.gens[Len(f.gens)]} : h.state # "none"}}}
         [] c.op = "longestStateIds" -> {Returned(f, longestStateIds(f))}
         [] c.op = "blindsState" ->
              {Returned(f, blindsState(f, a.hoys, a.blindsStateIds, a.logic))}
         [] c.op = "daylightAutonomy" ->
              {Returned(f, daylightAutonomy(f, a.DAThreshhold, a.blindsStateIds,
                                            a.occSchedule))}
         [] c.op = "usefulDaylightIlluminance" ->
              {Returned(f, usefulDaylightIlluminance(f, a.UDIMinMax,
                                                     a.blindsStateIds,
                                                     a.occSchedule))}
         [] c.op = "annualMetrics" ->
              {Returned(f, annualMetrics(f, a.DAThreshhold, a.UDIMinMax,
                                         a.blindsStateIds, a.occSchedule))}

(* Calls *)

CountWrite(cap) == nwrites < cap /\ nwrites' = nwrites + 1 /\ UNCHANGED nreads

CountRead(cap) == nreads < cap /\ nreads' = nreads + 1 /\ UNCHANGED nwrites

\* a call by the holder of the object: it leaves the object as the method
\* left it and the generator combinedValuesById returned last; call records
\* how it ended and, for a batch setter, the calls its generators made
Call(op, a) ==
    \E r \in Apply(Self, [op |-> op, args |-> a]) :
        /\ sources' = r.sources
        /\ keyOrder' = r.keyOrder
        /\ values' = r.values
        /\ isDirectLoaded' = r.isDirectLoaded
        /\ gen' = r.gens[Len(r.gens)]
        /\ call' = IF op \in {"setValues", "setCoupledValues"}
                   THEN [op |-> op, args |-> a, outcome |-> r.outcome,
                         ret |-> r.ret, made |-> r.made]
                   ELSE [op |-> op, args |-> a, outcome |-> r.outcome,
                         ret |-> r.ret]

CoupledInputs ==
    {[scalar |-> FALSE, items |-> s] : s \in [1..2 -> Vals]}
    \cup {[scalar |-> FALSE, items |-> <<0>>],
          [scalar |-> FALSE, items |-> <<0, 1, 0>>],
          [scalar |-> TRUE, items |-> <<0>>]}

IdInputs == {None, 1}

\* which of values and hoys the caller passes as a generator
GeneratorInputs == {{}, {"values"}, {"hoys"}}

WriteValue ==
    /\ CountWrite(MaxWrites)
    /\ \E v \in Vals, hoy \in Hours, source \in SourceNames,
          state \in StateNames, isDirect \in BOOLEAN :
           Call("setValue",
                [value |-> v, hoy |-> hoy, source |-> source,
                 state |-> state, isDirect |-> isDirect])

\* the batch setters on lists of at most MaxLen values and hours
WriteValues ==
    /\ CountWrite(MaxWrites)
    /\ \E vs \in SeqsUpTo(Vals, MaxLen), hs \in SeqsUpTo(Hours, MaxLen),
          source \in SourceNames, state \in StateNames, isDirect \in BOOLEAN :
           Call("setValues",
                [values |-> vs, hoys |-> hs, source |-> source, state |-> state,
                 isDirect |-> isDirect, generators |-> {}, calls |-> NoCalls])

WriteCoupledValue ==
    /\ CountWrite(MaxWrites)
    /\ \E v \in CoupledInputs, hoy \in Hours, source \in SourceNames,
          state \in StateNames :
           Call("setCoupledValue",
                [value |-> v, hoy |-> hoy, source |-> source, state |-> state])

WriteCoupledValues ==
    /\ CountWrite(MaxWrites)
    /\ \E vs \in SeqsUpTo(CoupledInputs, MaxLen), hs \in SeqsUpTo(Hours, MaxLen),
          source \in SourceNames, state \in StateNames :
           Call("setCoupledValues",
                [values |-> vs, hoys |-> hs, source |-> source, state |-> state,
                 generators |-> {}, calls |-> NoCalls])

ReadValue ==
    /\ CountRead(MaxReads)
    /\ \E hoy \in Hours, source \in SourceNames, state \in StateNames :
           Call("value", [hoy |-> hoy, source |-> source, state |-> state])

ReadDirectValue ==
    /\ CountRead(MaxReads)
    /\ \E hoy \in Hours, source \in SourceNames, state \in StateNames :
           Call("directValue", [hoy |-> hoy, source |-> source, state |-> state])

ReadCoupledValue ==
    /\ CountRead(MaxReads)
    /\ \E hoy \in Hours, source \in SourceNames, state \in StateNames :
           Call("coupledValue", [hoy |-> hoy, source |-> source, state |-> state])

ReadValues ==
    /\ CountRead(MaxReads)
    /\ \E hs \in SeqsUpTo(Hours, MaxLen), source \in SourceNames,
          state \in StateNames :
           Call("values", [hoys |-> hs, source |-> source, state |-> state])

ReadDirectValues ==
    /\ CountRead(MaxReads)
    /\ \E hs \in SeqsUpTo(Hours, MaxLen), source \in SourceNames,
          state \in StateNames :
           Call("directValues", [hoys |-> hs, source |-> source, state |-> state])

ReadCoupledValues ==
    /\ CountRead(MaxReads)
    /\ \E hs \in SeqsUpTo(Hours, MaxLen), source \in SourceNames,
          state \in StateNames :
           Call("coupledValues", [hoys |-> hs, source |-> source, state |-> state])

ReadCoupledValueById ==
    /\ CountRead(MaxReads)
    /\ \E hoy \in Hours, srcId \in IdInputs, stId \in IdInputs :
           Call("coupledValueById",
                [hoy |-> hoy, sourceId |-> srcId, stateId |-> stId])

ReadCoupledValuesById ==
    /\ CountRead(MaxReads)
    /\ \E hs \in SeqsUpTo(Hours, MaxLen), srcId \in IdInputs, stId \in IdInputs :
           Call("coupledValuesById",
                [hoys |-> hs, sourceId |-> srcId, stateId |-> stId])

\* lists of hours a caller asks for; <<>> stands for "not given"
HourLists == SeqsUpTo(Hours, MaxHours)

NumSources == Cardinality(DOMAIN sources)

\* the hours a call works on: hoys or self.hoys
HoursOr(hs) == IF Falsy(hs) THEN hoys ELSE hs

\* one state id per source: -1 removes the source
Rows(ids) == [1..NumSources -> ids]

RowInputs == {<<>>} \cup Rows({-1, 0, 1}) \cup {<<0, 0, 0>>}

\* not given, one row per hour, or a single row whatever the hours
MatrixInputs(hs) == {<<>>} \cup [1..Len(HoursOr(hs)) -> Rows({-1, 0})]
                    \cup {<<Zeros(NumSources)>>}

\* combinations as the caller writes them: comma-separated state ids or
\* names, one string per combination; <<>> stands for "not given"
CandidateInputs ==
    {<<>>,
     << <<"0">> >>,
     << <<"0">>, <<"1">> >>,
     << <<"1">>, <<"0">> >>,
     << <<"x">>, <<"1">> >>,
     << <<"0", ",", "0">> >>,
     << <<"0", ",", "0">>, <<"1", ",", "0">> >>,
     << <<"0", ",", " ", "0">>, <<"0", ",", "1">> >>}

LogicKinds == {"default", "always", "lit"}

ThreshholdInputs == {None} \cup (1..(MaxVal + 1))

MinMaxInputs == {<<>>, <<1, 1>>, <<0, 1>>}

\* an occupancy schedule is a set of hours; {} stands for "not given"
ScheduleInputs == SUBSET Hours

\* not given, or every source removed at every hour
MetricMatrixInputs == {<<>>, Repeat(Repeat(-1, NumSources), Len(hoys))}

\* a first write to a (source, state): it registers the source and the state
WriteState ==
    /\ CountWrite(MaxRegs)
    /\ \E v \in {0}, hoy \in {0}, source \in SourceNames, state \in StateNames :
           Call("setValue",
                [value |-> v, hoy |-> hoy, source |-> source,
                 state |-> state, isDirect |-> FALSE])

ReadLongestStateIds ==
    /\ CountRead(MaxReads)
    /\ Call("longestStateIds", <<>>)

ReadCombinedValueById ==
    /\ CountRead(MaxReads)
    /\ \E hoy \in Hours, ids \in RowInputs :
           Call("combinedValueById", [hoy |-> hoy, blindsStateIds |-> ids])

\* the call returns a generator and reads nothing; a generator the caller
\* held before is dropped
CallCombinedValuesById ==
    /\ CountRead(MaxReads)
    /\ \E hs \in HourLists :
           \E matrix \in MatrixInputs(hs) :
               Call("combinedValuesById", [hoys |-> hs, blindsStateIds |-> matrix])

\* the generator handed to a batch setter as its values: its totals to
\* setValues, itself to setCoupledValues
PullHours == {<<0, 0>>, <<0, 1>>}

FromGenerator == {"values", "combined"}

Increments == {0, 1}

WriteCombinedTotals ==
    /\ CountWrite(MaxWrites)
    /\ gen.state # "none"
    /\ \E add \in Increments, hs \in PullHours, source \in SourceNames,
          state \in StateNames, isDirect \in BOOLEAN :
           Call("setValues",
                [values |-> <<add>>, hoys |-> hs, source |-> source,
                 state |-> state, isDirect |-> isDirect,
                 generators |-> FromGenerator, calls |-> NoCalls])

WriteCombinedValues ==
    /\ CountWrite(MaxWrites)
    /\ gen.state # "none"
    /\ \E hs \in PullHours, source \in SourceNames, state \in StateNames :
           Call("setCoupledValues",
                [values |-> <<>>, hoys |-> hs, source |-> source,
                 state |-> state, generators |-> FromGenerator,
                 calls |-> NoCalls])

\* next() on the generator, whenever its holder asks, other calls in between
NextCombinedValue ==
    /\ gen.state # "none"
    /\ UNCHANGED <<nwrites, nreads>>
    /\ Call("next", [hoys |-> gen.hoys, blindsStateIds |-> gen.blindsStateIds])

ReadBlindsState ==
    /\ CountRead(MaxReads)
    /\ \E hs \in HourLists, candidates \in CandidateInputs, kind \in LogicKinds :
           Call("blindsState",
                [hoys |-> hs, blindsStateIds |-> candidates, logic |-> kind])

ReadDaylightAutonomy ==
    /\ CountRead(MaxReads)
    /\ \E thr \in ThreshholdInputs, matrix \in MetricMatrixInputs,
          occ \in ScheduleInputs :
           Call("daylightAutonomy",
                [DAThreshhold |-> thr, blindsStateIds |-> matrix,
                 occSchedule |-> occ])

ReadUsefulDaylightIlluminance ==
    /\ CountRead(MaxReads)
    /\ \E mm \in MinMaxInputs, matrix \in MetricMatrixInputs,
          occ \in ScheduleInputs :
           Call("usefulDaylightIlluminance",
                [UDIMinMax |-> mm, blindsStateIds |-> matrix, occSchedule |-> occ])

ReadAnnualMetrics ==
    /\ CountRead(MaxReads)
    /\ \E thr \in ThreshholdInputs, mm \in MinMaxInputs,
          matrix \in MetricMatrixInputs, occ \in ScheduleInputs :
           Call("annualMetrics",
                [DAThreshhold |-> thr, UDIMinMax |-> mm,
                 blindsStateIds |-> matrix, occSchedule |-> occ])

\* the four setters as they register sources and states: one hour, and
\* values that are stored, malformed or of the wrong number
RegisterValues ==
    /\ CountWrite(MaxRegs)
    /\ \E vs \in {<<0>>, <<>>}, source \in SourceNames, state \in StateNames,
          lazy \in GeneratorInputs :
           Call("setValues",
                [values |-> vs, hoys |-> <<0>>, source |-> source,
                 state |-> state, isDirect |-> FALSE, generators |-> lazy,
                 calls |-> NoCalls])

RegisterCoupledValue ==
    /\ CountWrite(MaxRegs)
    /\ \E v \in {[scalar |-> FALSE, items |-> <<0, 0>>],
                  [scalar |-> TRUE, items |-> <<0>>]},
          source \in SourceNames, state \in StateNames :
           Call("setCoupledValue",
                [value |-> v, hoy |-> 0, source |-> source, state |-> state])

RegisterCoupledValues ==
    /\ CountWrite(MaxRegs)
    /\ \E v \in {[scalar |-> FALSE, items |-> <<0, 0>>],
                  [scalar |-> FALSE, items |-> <<0>>]},
          source \in SourceNames, state \in StateNames,
          lazy \in GeneratorInputs :
           Call("setCoupledValues",
                [values |-> <<v>>, hoys |-> <<0>>, source |-> source,
                 state |-> state, generators |-> lazy, calls |-> NoCalls])

\* a generator body with the one call c before its k-th yield
CallBefore(k, c) == [i \in 1..k |-> IF i = k THEN <<c>> ELSE <<>>]

\* the call a generator argument makes on the object while the batch setter
\* draws from it: a setValue to any source and state, and to source b a
\* setCoupledValue of a pair or of a number, a setValues on a list of the
\* right or of the wrong length, a setCoupledValues whose hours are a
\* generator that calls setValue in turn, and a read
RegisteringCalls ==
    {[op |-> "setValue",
      args |-> [value |-> 1, hoy |-> 0, source |-> s, state |-> st,
                isDirect |-> FALSE]] :
        s \in SourceNames, st \in StateNames}
    \cup {[op |-> "setCoupledValue",
           args |-> [value |-> v, hoy |-> 0, source |-> "b", state |-> <<"1">>]] :
             v \in {[scalar |-> FALSE, items |-> <<0, 0>>],
                    [scalar |-> TRUE, items |-> <<0>>]}}
    \cup {[op |-> "setValues",
           args |-> [values |-> vs, hoys |-> <<0>>, source |-> "b",
                     state |-> <<"x">>, isDirect |-> FALSE, generators |-> {},
                     calls |-> NoCalls]] :
             vs \in {<<0>>, <<>>}}
    \cup {[op |-> "setCoupledValues",
           args |-> [values |-> <<[scalar |-> FALSE, items |-> <<0, 0>>]>>,
                     hoys |-> <<0>>, source |-> "b", state |-> <<"x">>,
                     generators |-> {"hoys"},
                     calls |-> [NoCalls EXCEPT !.hoys =
                                  CallBefore(1,
                                      [op |-> "setValue",
                                       args |-> [value |-> 1, hoy |-> 0,
                                                 source |-> "a",
                                                 state |-> <<"1">>,
                                                 isDirect |-> FALSE]])]]],
          [op |-> "value",
           args |-> [hoy |-> 0, source |-> "b", state |-> <<"x">>]]}

\* the batch setters on one item for state x of source a, with a generator
\* for values that calls the object before its yield, or one for hoys that
\* calls it before its yield or before it returns
WritingGenerators ==
    {[generators |-> {"values"},
      calls |-> [NoCalls EXCEPT !.values = CallBefore(1, c)]] :
        c \in RegisteringCalls}
    \cup {[generators |-> {"hoys"},
           calls |-> [NoCalls EXCEPT !.hoys = CallBefore(k, c)]] :
             k \in 1..2, c \in RegisteringCalls}

RegisterValuesWhileWriting ==
    /\ CountWrite(MaxRegs)
    /\ \E g \in WritingGenerators :
           Call("setValues",
                [values |-> <<0>>, hoys |-> <<0>>, source |-> "a",
                 state |-> <<"x">>, isDirect |-> FALSE,
                 generators |-> g.generators, calls |-> g.calls])

RegisterCoupledValuesWhileWriting ==
    /\ CountWrite(MaxRegs)
    /\ \E g \in WritingGenerators :
           Call("setCoupledValues",
                [values |-> <<[scalar |-> FALSE, items |-> <<0, 0>>]>>,
                 hoys |-> <<0>>, source |-> "a", state |-> <<"x">>,
                 generators |-> g.generators, calls |-> g.calls])

\* samples of hour 0 with a total, a direct value or both, and the combined
\* value read from them as often as the caller likes
WriteTotal ==
    /\ CountWrite(MaxRegs)
    /\ \E v \in {1, 2}, source \in SourceNames, state \in StateNames :
           Call("setValue",
                [value |-> v, hoy |-> 0, source |-> source,
                 state |-> state, isDirect |-> FALSE])

WriteDirect ==
    /\ CountWrite(MaxRegs)
    /\ \E source \in SourceNames, state \in StateNames :
           Call("setValue",
                [value |-> 1, hoy |-> 0, source |-> source,
                 state |-> state, isDirect |-> TRUE])

WriteCoupled ==
    /\ CountWrite(MaxRegs)
    /\ \E source \in SourceNames, state \in StateNames :
           Call("setCoupledValue",
                [value |-> [scalar |-> FALSE, items |-> <<2, 1>>], hoy |-> 0,
                 source |-> source, state |-> state])

ReadCombinedSample ==
    /\ UNCHANGED <<nwrites, nreads>>
    /\ \E ids \in RowInputs :
           Call("combinedValueById", [hoy |-> 0, blindsStateIds |-> ids])

\* one series of illuminances below, on, between and above the bounds (1, 2)
\* and (1, 1), and the UDI of it with every value counted or some
Illuminances == 0..3

BoundInputs == {<<>>, <<1, 2>>, <<1, 1>>}

CountedInputs == {{}, Illuminances, {1, 2}}

WriteIlluminance ==
    /\ CountWrite(MaxRegs)
    /\ \E v \in Illuminances, hoy \in Hours :
           Call("setValue",
                [value |-> v, hoy |-> hoy, source |-> "a",
                 state |-> <<"x">>, isDirect |-> FALSE])

ReadUDI ==
    /\ UNCHANGED <<nwrites, nreads>>
    /\ \E mm \in BoundInputs, occ \in CountedInputs :
           Call("usefulDaylightIlluminance",
                [UDIMinMax |-> mm, blindsStateIds |-> <<>>, occSchedule |-> occ])

ReadAnnualUDI ==
    /\ UNCHANGED <<nwrites, nreads>>
    /\ \E mm \in BoundInputs, occ \in CountedInputs :
           Call("annualMetrics",
                [DAThreshhold |-> None, UDIMinMax |-> mm,
                 blindsStateIds |-> <<>>, occSchedule |-> occ])

\* the batch setters on two values, for two hours or (a wrong number) one,
\* either of them a list or a generator
BatchHours == {<<0, 1>>, <<0>>}

WriteValuesBatch ==
    /\ CountWrite(MaxWrites)
    /\ \E vs \in [1..2 -> Vals], hs \in BatchHours,
          source \in SourceNames, state \in StateNames, isDirect \in BOOLEAN,
          lazy \in GeneratorInputs :
           Call("setValues",
                [values |-> vs, hoys |-> hs, source |-> source, state |-> state,
                 isDirect |-> isDirect, generators |-> lazy, calls |-> NoCalls])

WriteCoupledValuesBatch ==
    /\ CountWrite(MaxWrites)
    /\ \E vs \in [1..2 -> CoupledInputs], hs \in BatchHours,
          source \in SourceNames, state \in StateNames,
          lazy \in GeneratorInputs :
           Call("setCoupledValues",
                [values |-> vs, hoys |-> hs, source |-> source, state |-> state,
                 generators |-> lazy, calls |-> NoCalls])

\* the call the generator of values makes between its two yields: a
\* setValue to hour 0, a setCoupledValue to the hour the setter writes next,
\* to the hour it has written or to another source, a batch setter on a
\* list, and a read of hour 1
CallsBetween ==
    {[op |-> "setValue",
      args |-> [value |-> 1, hoy |-> 0, source |-> s, state |-> <<"x">>,
                isDirect |-> d]] :
        s \in SourceNames, d \in BOOLEAN}
    \cup {[op |-> "setCoupledValue",
           args |-> [value |-> [scalar |-> FALSE, items |-> <<0, 1>>],
                     hoy |-> 1, source |-> "a", state |-> <<"x">>]],
          [op |-> "setCoupledValue",
           args |-> [value |-> [scalar |-> FALSE, items |-> <<1, 1>>],
                     hoy |-> 0, source |-> "a", state |-> <<"x">>]],
          [op |-> "setCoupledValue",
           args |-> [value |-> [scalar |-> FALSE, items |-> <<0, 0>>],
                     hoy |-> 0, source |-> "b", state |-> <<"1">>]],
          [op |-> "setCoupledValues",
           args |-> [values |-> <<[scalar |-> FALSE, items |-> <<1, 1>>]>>,
                     hoys |-> <<1>>, source |-> "a", state |-> <<"x">>,
                     generators |-> {}, calls |-> NoCalls]],
          [op |-> "setValues",
           args |-> [values |-> <<1>>, hoys |-> <<1>>, source |-> "a",
                     state |-> <<"x">>, isDirect |-> TRUE, generators |-> {},
                     calls |-> NoCalls]],
          [op |-> "value",
           args |-> [hoy |-> 1, source |-> "a", state |-> <<"x">>]]}

\* the batch setters on two hours of state x of source a, drawing the values
\* from a generator that writes to the object after its first yield
WriteValuesWhileWriting ==
    /\ CountWrite(MaxWrites)
    /\ \E vs \in [1..2 -> Vals], isDirect \in BOOLEAN, c \in CallsBetween :
           Call("setValues",
                [values |-> vs, hoys |-> <<0, 1>>, source |-> "a",
                 state |-> <<"x">>, isDirect |-> isDirect,
                 generators |-> {"values"},
                 calls |-> [NoCalls EXCEPT !.values = CallBefore(2, c)]])

WriteCoupledValuesWhileWriting ==
    /\ CountWrite(MaxWrites)
    /\ \E v \in {[scalar |-> FALSE, items |-> <<0, 1>>],
                  [scalar |-> FALSE, items |-> <<0>>]},
          c \in CallsBetween :
           Call("setCoupledValues",
                [values |-> <<[scalar |-> FALSE, items |-> <<0, 0>>], v>>,
                 hoys |-> <<0, 1>>, source |-> "a", state |-> <<"x">>,
                 generators |-> {"values"},
                 calls |-> [NoCalls EXCEPT !.values = CallBefore(2, c)]])


\* what the generator of values does with the generator of combinedValuesById
\* between its two yields: it steps the one the caller holds, or asks for a
\* new one
DrawingCalls ==
    {[op |-> "next",
      args |-> [hoys |-> gen.hoys, blindsStateIds |-> gen.blindsStateIds]],
     [op |-> "combinedValuesById",
      args |-> [hoys |-> <<0>>, blindsStateIds |-> <<>>]]}

\* the batch setters on two hours of state x of source a, drawing the values
\* from a generator that draws from the generator of combinedValuesById
\* after its first yield
WriteValuesWhileDrawing ==
    /\ CountWrite(MaxWrites)
    /\ gen.state # "none"
    /\ \E c \in DrawingCalls :
           Call("setValues",
                [values |-> <<0, 0>>, hoys |-> <<0, 1>>, source |-> "a",
                 state |-> <<"x">>, isDirect |-> FALSE,
                 generators |-> {"values"},
                 calls |-> [NoCalls EXCEPT !.values = CallBefore(2, c)]])

WriteCoupledValuesWhileDrawing ==
    /\ CountWrite(MaxWrites)
    /\ gen.state # "none"
    /\ \E c \in DrawingCalls :
           Call("setCoupledValues",
                [values |-> <<[scalar |-> FALSE, items |-> <<1, 1>>],
                              [scalar |-> FALSE, items |-> <<1, 0>>]>>,
                 hoys |-> <<0, 1>>, source |-> "a", state |-> <<"x">>,
                 generators |-> {"values"},
                 calls |-> [NoCalls EXCEPT !.values = CallBefore(2, c)]])

----------------------------------------------------------------------------
(* The store: the four writers and the readers by name and by id *)

Next ==
    \/ WriteValue
    \/ WriteValues
    \/ WriteCoupledValue
    \/ WriteCoupledValues
    \/ ReadValue
    \/ ReadDirectValue
    \/ ReadCoupledValue
    \/ ReadValues
    \/ ReadDirectValues
    \/ ReadCoupledValues
    \/ ReadCoupledValueById
    \/ ReadCoupledValuesById

Spec == Init /\ [][Next]_vars

----------------------------------------------------------------------------
(* The combined readers and the blinds state selection on a store filled *)
(* by setValue                                                           *)

NextCombined ==
    \/ WriteValue
    \/ ReadCombinedValueById
    \/ ReadBlindsState

SpecCombined == Init /\ [][NextCombined]_vars

(* The generator of combinedValuesById, with writes between its steps *)

NextGenerator ==
    \/ WriteValue
    \/ CallCombinedValuesById
    \/ NextCombinedValue
    \/ WriteCombinedTotals
    \/ WriteCombinedValues
    \/ WriteValuesWhileDrawing
    \/ WriteCoupledValuesWhileDrawing

SpecGenerator == Init /\ [][NextGenerator]_vars

(* The state combinations of the registered sources and states *)

NextStates ==
    \/ WriteState
    \/ ReadLongestStateIds

SpecStates == Init /\ [][NextStates]_vars

(* The annual metrics on a store filled by setValue *)

NextMetrics ==
    \/ WriteValue
    \/ ReadDaylightAutonomy
    \/ ReadUsefulDaylightIlluminance
    \/ ReadAnnualMetrics

SpecMetrics == Init /\ [][NextMetrics]_vars

(* The registry of sources and states under the four setters *)

NextIds ==
    \/ WriteState
    \/ RegisterValues
    \/ RegisterCoupledValue
    \/ RegisterCoupledValues
    \/ RegisterValuesWhileWriting
    \/ RegisterCoupledValuesWhileWriting

SpecIds == Init /\ [][NextIds]_vars

(* The four setters alone, the batch setters on two values *)

NextWriters ==
    \/ WriteValue
    \/ WriteCoupledValue
    \/ WriteValuesBatch
    \/ WriteCoupledValuesBatch
    \/ WriteValuesWhileWriting
    \/ WriteCoupledValuesWhileWriting

SpecWriters == Init /\ [][NextWriters]_vars

(* The combined value of samples that hold a total, a direct value or both *)

NextSamples ==
    \/ WriteTotal
    \/ WriteDirect
    \/ WriteCoupled
    \/ ReadCombinedSample

SpecSamples == Init /\ [][NextSamples]_vars

(* The UDI buckets of one series *)

NextUDI ==
    \/ WriteIlluminance
    \/ ReadUDI
    \/ ReadAnnualUDI

SpecUDI == Init /\ [][NextUDI]_vars

----------------------------------------------------------------------------
(* Claims about the store *)

NamedReaders == {"value", "directValue", "coupledValue",
                 "values", "directValues", "coupledValues"}

\* IndexError is a LookupError too; ValueError is what the readers raise
LookupErrors == {"ValueError", "IndexError"}

\* the hours a reader call asks for
HoursAsked(c) == IF c.op \in {"value", "directValue", "coupledValue"}
                 THEN {c.args.hoy}
                 ELSE {c.args.hoys[i] : i \in 1..Len(c.args.hoys)}

\* (source, state) names a series of the store, and h is not one of its hours
AbsentFrom(source, state, h) ==
    /\ source \in DOMAIN sources
    /\ InList(sources[source].state, state)
    /\ h \notin DOMAIN Series(values, sources[source].id,
                              IndexOf(sources[source].state, state))

\* C1: a reader by name that is asked for an hour absent from a known
\* (source, state) series ends in the lookup error; it never returns a
\* default sample.
C1_AbsentHourRaises ==
    [][(/\ nreads' # nreads
        /\ call'.op \in NamedReaders
        /\ \E h \in HoursAsked(call') :
               AbsentFrom(call'.args.source, call'.args.state, h))
       => call'.outcome \in LookupErrors]_vars

\* C2: a read leaves the whole store unchanged, whether it returns or fails.
C2_ReadsLeaveStoreUnchanged ==
    [][nreads' # nreads => store' = store]_vars

\* the pair a successful coupled write stored for hour h, <<>> if none
LastCoupled(c, h) ==
    IF c.op = "setCoupledValue"
    THEN IF c.args.hoy = h /\ ~c.args.value.scalar /\ Len(c.args.value.items) = 2
         THEN c.args.value.items ELSE <<>>
    ELSE IF c.op = "setCoupledValues"
    THEN LET hit == {i \in 1..Len(c.args.hoys) : c.args.hoys[i] = h}
         IN IF hit = {} THEN <<>>
            ELSE LET last == CHOOSE i \in hit : \A j \in hit : j <= i
                 IN IF c.args.values[last].scalar THEN <<>>
                    ELSE c.args.values[last].items
    ELSE <<>>

\* C3: round trip: coupledValue(hour, source, state) right after a coupled
\* write of (total, direct) pairs to the same source and state returns the
\* pair last written for that hour, whatever the state is called.
C3_CoupledRoundTrip ==
    [][(/\ call.op \in {"setCoupledValue", "setCoupledValues"}
        /\ call.outcome = "ok"
        /\ call'.op = "coupledValue"
        /\ call'.args.source = call.args.source
        /\ call'.args.state = call.args.state
        /\ Len(LastCoupled(call, call'.args.hoy)) = 2)
       => (/\ call'.outcome = "ok"
           /\ call'.ret = LastCoupled(call, call'.args.hoy))]_vars

----------------------------------------------------------------------------
(* Claims about the combined readers and the selection.  A claim about a
   call is an action property: the call is the step, what the claim requires
   of the store is read before the step and the result after it. *)

\* the hours of a list are all hours of the store
Stored(hs) == \A i \in 1..Len(hs) : InList(hoys, hs[i])

\* no hour is asked twice
NoRepeat(hs) == \A i, j \in 1..Len(hs) : hs[i] = hs[j] => i = j

\* the matrix a combinedValuesById call works on
MatrixOr(matrix, hs) ==
    IF Falsy(matrix) THEN Repeat(Zeros(NumSources), Len(hs)) ELSE matrix

\* the hours, the rows and the position of the generator at its next step;
\* before the first step they are what the first step will bind
GenHours == IF gen.state = "created" THEN HoursOr(gen.hoys) ELSE gen.hs

GenMatrix == IF gen.state = "created"
             THEN MatrixOr(gen.blindsStateIds, GenHours) ELSE gen.matrix

GenPos == IF gen.state = "created" THEN 1 ELSE gen.i

\* the generator is live, on stored hours, each asked once, with one row of
\* state ids per hour
ValuesDefined ==
    /\ gen.state \in {"created", "suspended"}
    /\ Stored(GenHours)
    /\ NoRepeat(GenHours)
    /\ Len(GenMatrix) = Len(GenHours)

\* C4: combinedValuesById(hours, stateIdMatrix) yields one pair per hour, in
\* the order of hours, and the i-th pair is
\* combinedValueById(hours[i], stateIdMatrix[i]), for any list of stored hours
\* (each asked once): the i-th next() yields what combinedValueById returns
\* then, and the one after the last hour stops.
C4_ValuesMatchValueById ==
    [][(call'.op = "next" /\ gen' # gen /\ ValuesDefined)
       => IF GenPos > Len(GenHours)
          THEN call'.outcome = "StopIteration"
          ELSE combinedValueById(Self, GenHours[GenPos], GenMatrix[GenPos]).outcome = "ok"
               => (/\ call'.outcome = "ok"
                   /\ call'.ret = combinedValueById(Self, GenHours[GenPos],
                                                    GenMatrix[GenPos]).ret)]_vars

\* the candidates of a blindsState call, resolved to state ids
Candidates(c) == CombIds(Self, c.args.blindsStateIds).ret

\* a blindsState call whose hours are stored, each asked once, and whose
\* candidates can all be combined at every requested hour
SelectionDefined(c) ==
    /\ c.op = "blindsState"
    /\ Stored(HoursOr(c.args.hoys))
    /\ NoRepeat(HoursOr(c.args.hoys))
    /\ CombIds(Self, c.args.blindsStateIds).outcome = "ok"
    /\ \A i \in 1..Len(HoursOr(c.args.hoys)), k \in 1..Len(Candidates(c)) :
           combinedValueById(Self, HoursOr(c.args.hoys)[i], Candidates(c)[k]).outcome = "ok"

\* the candidates that the logic rejects at hour h (the logic is false)
Rejected(c, h) ==
    {k \in 1..Len(Candidates(c)) :
        LET v == combinedValueById(Self, h, Candidates(c)[k]).ret
        IN ~Logic(c.args.logic, v[1], v[2], h)}

\* C8: for the i-th requested hour h, with k the first candidate for which
\* the logic is false, blindsState reports at position i the combination
\* c_k, the index k, the (total, direct) of combinedValueById(h, c_k) and
\* the flag 0 if k is the first candidate and 1 otherwise.
C8_SelectsFirstRejected ==
    [][(nreads' # nreads /\ SelectionDefined(call'))
       => (/\ call'.outcome = "ok"
           /\ \A i \in 1..Len(HoursOr(call'.args.hoys)) :
                  LET h == HoursOr(call'.args.hoys)[i]
                      rej == Rejected(call', h)
                  IN rej # {} =>
                     LET k == CHOOSE x \in rej : \A y \in rej : x <= y
                         v == combinedValueById(Self, h, Candidates(call')[k]).ret
                     IN /\ call'.ret.blindsState[i] = Candidates(call')[k]
                        /\ call'.ret.blindsIndex[i] = k - 1
                        /\ call'.ret.illValues[i] = v[1]
                        /\ call'.ret.dirValues[i] = v[2]
                        /\ call'.ret.success[i] = (IF k = 1 THEN 0 ELSE 1))]_vars

\* C9: when the logic is true for every candidate at a requested hour,
\* blindsState raises no error and reports for that hour the flag -1, the
\* last candidate with its index, and the values of that last candidate.
C9_FallbackToLastCandidate ==
    [][(/\ nreads' # nreads
        /\ SelectionDefined(call')
        /\ \A i \in 1..Len(HoursOr(call'.args.hoys)) :
               Rejected(call', HoursOr(call'.args.hoys)[i]) = {})
       => (/\ call'.outcome = "ok"
           /\ \A i \in 1..Len(HoursOr(call'.args.hoys)) :
                  LET h == HoursOr(call'.args.hoys)[i]
                      n == Len(Candidates(call'))
                      v == combinedValueById(Self, h, Candidates(call')[n]).ret
                  IN /\ call'.ret.success[i] = -1
                     /\ call'.ret.blindsState[i] = Candidates(call')[n]
                     /\ call'.ret.blindsIndex[i] = n - 1
                     /\ call'.ret.illValues[i] = v[1]
                     /\ call'.ret.dirValues[i] = v[2])]_vars

\* the number of states of the source whose id is k
StateCount(k) == Len(sources[SourcesById(sources)[k + 1]].state)

\* C10: longestStateIds has max_k(StateCount(k) - 1) + 1 vectors, and
\* component k of the i-th vector (i from 0) is min(i, StateCount(k) - 1),
\* k being the source id.
C10_LongestByMinPerSourceId ==
    (call.op = "longestStateIds" /\ NumSources > 0)
    => (/\ call.outcome = "ok"
        /\ Len(call.ret) =
               MaxOf([k \in 1..NumSources |-> StateCount(k - 1) - 1]) + 1
        /\ \A i \in 1..Len(call.ret) :
               /\ Len(call.ret[i]) = NumSources
               /\ \A k \in 1..NumSources :
                      call.ret[i][k] = Min(i - 1, StateCount(k - 1) - 1))

----------------------------------------------------------------------------
(* Claims about the annual metrics *)

MetricOps == {"daylightAutonomy", "usefulDaylightIlluminance", "annualMetrics"}

\* the denominators of the ratios a metric returned: the hours it counted
Denominators(c) ==
    IF c.op = "daylightAutonomy" THEN {c.ret.DA[2]}
    ELSE IF c.op = "usefulDaylightIlluminance"
    THEN {c.ret.UDI[2], c.ret.UDI_l[2], c.ret.UDI_m[2]}
    ELSE {c.ret.DA[2], c.ret.UDI[2], c.ret.UDI_l[2], c.ret.UDI_m[2]}

\* C5: with no occupancy schedule no hour is filtered out: every hour of
\* hoys is counted and is the denominator of every ratio. (Stated for the
\* calls whose combined values could be read.)
C5_NoScheduleCountsEveryHour ==
    [][(/\ nreads' # nreads
        /\ call'.op \in MetricOps
        /\ call'.args.occSchedule = {}
        /\ Len(hoys) > 0
        /\ call'.outcome \in {"ok", "ZeroDivisionError"})
       => (/\ call'.outcome = "ok"
           /\ \A d \in Denominators(call') : d = Len(hoys))]_vars

\* C6: for a store holding a single hour whose combined total equals the
\* threshold, daylightAutonomy(threshold) with no schedule returns DA = 1
\* and CDA = 1. (Stated for the store whose hour is 0, where the combined
\* values can be read.)
C6_AtThreshholdCountsFully ==
    [][(/\ nreads' # nreads
        /\ call'.op = "daylightAutonomy"
        /\ call'.args.occSchedule = {}
        /\ hoys = <<0>>
        /\ combinedValueById(Self, 0, MatrixOr(call'.args.blindsStateIds, hoys)[1]
                            ).outcome = "ok"
        /\ combinedValueById(Self, 0, MatrixOr(call'.args.blindsStateIds, hoys)[1]
                            ).ret[1] = Threshhold(call'.args.DAThreshhold))
       => (/\ call'.outcome = "ok"
           /\ call'.ret.DA[1] = call'.ret.DA[2]
           /\ call'.ret.CDA[1] = call'.ret.CDA[2])]_vars

\* what stands for the validation error in this code
ValidationErrors == {"ValueError", "AssertionError"}

\* C7: a metric that counts no hour ends in the validation error, never in
\* a raw division by zero; in particular on a store with no hours.
C7_NoHoursIsValidationError ==
    [][(nreads' # nreads /\ call'.op \in MetricOps)
       => (/\ call'.outcome # "ZeroDivisionError"
           /\ Len(hoys) = 0 => call'.outcome \in ValidationErrors)]_vars

----------------------------------------------------------------------------
(* Claims about the setters *)

Setters == {"setValue", "setValues", "setCoupledValue", "setCoupledValues"}

\* the ids of the sources are 0..N-1 and no source lists a state twice (so
\* the positions 0..M-1 in its list are the ids of its states)
DenseIds(srcs) ==
    /\ {srcs[n].id : n \in DOMAIN srcs} = 0..(Cardinality(DOMAIN srcs) - 1)
    /\ \A n, m \in DOMAIN srcs : srcs[n].id = srcs[m].id => n = m
    /\ \A n \in DOMAIN srcs : NoRepeat(srcs[n].state)

Elements(seq) == {seq[i] : i \in 1..Len(seq)}

RECURSIVE Without(_, _)
\* seq less its items in S
Without(seq, S) ==
    IF Len(seq) = 0 THEN <<>>
    ELSE (IF Head(seq) \in S THEN <<>> ELSE <<Head(seq)>>) \o Without(Tail(seq), S)

RECURSIVE FirstsOf(_)
\* seq less the items that repeat an earlier one
FirstsOf(seq) ==
    IF Len(seq) = 0 THEN <<>>
    ELSE LET front == FirstsOf(SubSeq(seq, 1, Len(seq) - 1))
         IN IF InList(front, seq[Len(seq)]) THEN front
            ELSE Append(front, seq[Len(seq)])

\* a batch setter call that fails the comparison of the lengths
FailsLengths(c) ==
    /\ c.op \in {"setValues", "setCoupledValues"}
    /\ c.args.generators = {}
    /\ Len(c.args.values) # Len(c.args.hoys)

\* a setter call that gets as far as _createDataStructure
Registers(c) == c.op \in Setters /\ ~FailsLengths(c)

\* the writes of a setter call in the order they begin: its own, then those
\* of the setter calls its generator arguments made on the object, and
\* theirs made in turn
WritesOf(c) ==
    IF FailsLengths(c) THEN <<>>
    ELSE <<[source |-> c.args.source, state |-> c.args.state]>>
         \o (IF c.op \in {"setValues", "setCoupledValues"}
             THEN LET made == SelectSeq(c.made, Registers)
                  IN [i \in 1..Len(made) |->
                        [source |-> made[i].args.source,
                         state |-> made[i].args.state]]
             ELSE <<>>)

SourcesWritten(w) == [i \in 1..Len(w) |-> w[i].source]

RECURSIVE StatesWritten(_, _)
\* the states of the writes of w to the source n
StatesWritten(w, n) ==
    IF Len(w) = 0 THEN <<>>
    ELSE (IF Head(w).source = n THEN <<Head(w).state>> ELSE <<>>)
         \o StatesWritten(Tail(w), n)

\* the states srcs lists for n, none when it does not know n
KnownStates(srcs, n) == IF n \in DOMAIN srcs THEN srcs[n].state ELSE <<>>

\* C11: after any sequence of setter calls the source ids are 0..N-1 in the
\* order of first write and the state ids of a source are 0..M-1 in the
\* order of first write.  Every setter call, with the calls the generators
\* passed to it make while it runs, leaves the registry so: the sources it
\* knew keep their ids, the sources written for the first time take the
\* next ids in the order of their first write, every source lists the
\* states it listed followed by the states written to it for the first
\* time, in the order of their first write, and when every write is to a
\* known (source, state) the registry is unchanged.
C11_IdsDenseInFirstWriteOrder ==
    [][nwrites' # nwrites =>
        \A w \in {WritesOf(call')} :
        \A news \in {FirstsOf(Without(SourcesWritten(w), DOMAIN sources))} :
           /\ DenseIds(sources')
           /\ DOMAIN sources' = DOMAIN sources \cup Elements(news)
           /\ \A n \in DOMAIN sources : sources'[n].id = sources[n].id
           /\ \A k \in 1..Len(news) :
                  sources'[news[k]].id = Cardinality(DOMAIN sources) + k - 1
           /\ \A n \in DOMAIN sources' :
                  sources'[n].state =
                      KnownStates(sources, n)
                      \o FirstsOf(Without(StatesWritten(w, n),
                                          Elements(KnownStates(sources, n))))
           /\ (\A i \in 1..Len(w) :
                   InList(KnownStates(sources, w[i].source), w[i].state))
              => sources' = sources]_vars

\* two sources are registered and the last call wrote once more to the only
\* state of the source registered first
C11_Witness ==
    /\ call.op \in Setters
    /\ call.outcome = "ok"
    /\ NumSources = 2
    /\ sources[call.args.source].id = 0
    /\ Len(sources[call.args.source].state) = 1

\* the samples of a store
Samples(vals) ==
    {Series(vals, sid - 1, st - 1)[h] :
        <<sid, st, h>> \in
            {t \in (1..Len(vals)) \X (1..Cardinality(StateNames)) \X Hours :
                /\ t[2] <= Len(vals[t[1]])
                /\ t[3] \in DOMAIN vals[t[1]][t[2]]}}

\* a direct value or a coupled (total, direct) value is in the store
DirectStored(vals) ==
    \E sample \in Samples(vals) : sample.kind = "tuple" \/ sample.v[2] # None

\* C12: hasDirectValues is false as long as no direct or coupled value has
\* been stored, is true from the first write that stores one, and stays
\* true whatever is written afterwards.
C12_HasDirectFromFirstDirectWrite ==
    [][nwrites' # nwrites =>
        (/\ hasDirectValues' = DirectStored(values')
         /\ hasDirectValues => hasDirectValues')]_vars

\* a coupled value that is not a sequence of exactly 2 elements
Malformed(v) == v.scalar \/ Len(v.items) # 2

\* C13: setCoupledValue and setCoupledValues end in the validation error
\* for every value that has not exactly 2 elements (0, 1, 3 or more, or a
\* scalar), and setCoupledValue stores no sample for such a value.
C13_CoupledValueOfTwoElements ==
    [][nwrites' # nwrites =>
        (/\ (call'.op = "setCoupledValue" /\ Malformed(call'.args.value))
                => (/\ call'.outcome \in ValidationErrors
                    /\ Samples(values') = Samples(values))
         /\ (/\ call'.op = "setCoupledValues"
             /\ \E i \in 1..Len(call'.args.values) :
                    Malformed(call'.args.values[i]))
                => call'.outcome \in ValidationErrors)]_vars

\* (source, state) is registered in srcs and its series in vals has hour h
Holds(vals, srcs, source, state, h) ==
    /\ source \in DOMAIN srcs
    /\ InList(srcs[source].state, state)
    /\ h \in DOMAIN Series(vals, srcs[source].id,
                            IndexOf(srcs[source].state, state))

\* the (total, direct) of that hour
SampleAt(vals, srcs, source, state, h) ==
    Series(vals, srcs[source].id, IndexOf(srcs[source].state, state))[h].v

\* the slot setValue and setValues address
Slot(isDirect) == IF isDirect THEN 2 ELSE 1

\* C17: a setter call for a (source, state, hour) that already holds a
\* sample, whichever setter stored it, succeeds and replaces the slot(s) it
\* addresses, so that the store holds the last value written: setValue and
\* setValues replace the total or the direct value and keep the other one,
\* setCoupledValue and setCoupledValues replace both.
C17_ResetOverwrites ==
    [][nwrites' # nwrites =>
        LET a == call'.args
            Old(h) == SampleAt(values, sources, a.source, a.state, h)
            New(h) == SampleAt(values', sources', a.source, a.state, h)
            Known(h) == Holds(values, sources, a.source, a.state, h)
        IN /\ (call'.op = "setValue" /\ Known(a.hoy))
                  => (/\ call'.outcome = "ok"
                      /\ New(a.hoy)[Slot(a.isDirect)] = a.value
                      /\ New(a.hoy)[Slot(~a.isDirect)]
                             = Old(a.hoy)[Slot(~a.isDirect)])
           /\ (/\ call'.op = "setCoupledValue"
               /\ Known(a.hoy)
               /\ ~Malformed(a.value))
                  => (/\ call'.outcome = "ok"
                      /\ New(a.hoy) = a.value.items)
           /\ (/\ call'.op = "setValues"
               /\ Len(a.values) = Len(a.hoys)
               /\ NoRepeat(a.hoys)
               /\ \E i \in 1..Len(a.hoys) : Known(a.hoys[i]))
                  => (/\ call'.outcome = "ok"
                      /\ \A i \in 1..Len(a.hoys) :
                             New(a.hoys[i])[Slot(a.isDirect)] = a.values[i])
           /\ (/\ call'.op = "setCoupledValues"
               /\ Len(a.values) = Len(a.hoys)
               /\ NoRepeat(a.hoys)
               /\ \A i \in 1..Len(a.values) : ~Malformed(a.values[i])
               /\ \E i \in 1..Len(a.hoys) : Known(a.hoys[i]))
                  => (/\ call'.outcome = "ok"
                      /\ \A i \in 1..Len(a.hoys) :
                             New(a.hoys[i]) = a.values[i].items)]_vars

\* C18: a write that fails leaves the store unchanged: when setValues or
\* setCoupledValues fail on a length mismatch, or setCoupledValue or
\* setCoupledValues on a malformed value, no source or state is registered,
\* no sample of the batch is stored, and hasValues, hoys and
\* hasDirectValues are as before the call.
C18_FailedWriteChangesNothing ==
    [][(/\ nwrites' # nwrites
        /\ call'.op \in {"setValues", "setCoupledValue", "setCoupledValues"}
        /\ call'.outcome \in ValidationErrors)
       => (/\ sources' = sources
           /\ values' = values
           /\ hasValues' = hasValues
           /\ hoys' = hoys
           /\ hasDirectValues' = hasDirectValues)]_vars

----------------------------------------------------------------------------
(* Claims about combinedValueById *)

\* the state ids a combinedValueById call works on
RowOr(row) == IF Falsy(row) THEN Zeros(NumSources) ELSE row

\* the (source id, state id) pairs a row selects: those that are not -1
RECURSIVE Selected(_, _)
Selected(row, i) ==
    IF i > Len(row) THEN <<>>
    ELSE IF row[i] = -1 THEN Selected(row, i + 1)
    ELSE <<(<<i - 1, row[i]>>)>> \o Selected(row, i + 1)

\* the combined value over the selected pairs alone, from (total, direct)
RECURSIVE CombineSelected(_, _, _, _, _, _)
CombineSelected(vals, hoy, picks, i, total, direct) ==
    IF i > Len(picks) THEN [outcome |-> "ok", ret |-> <<total, direct>>]
    ELSE IF ~HasSeries(vals, picks[i][1], picks[i][2])
    THEN [outcome |-> "ValueError", ret |-> None]
    ELSE LET series == Touch(Series(vals, picks[i][1], picks[i][2]), hoy)
             t == series[hoy].v[1]
             d == series[hoy].v[2]
         IN IF t = None
            THEN CombineSelected(vals, hoy, picks, i + 1, total, direct)
            ELSE IF direct = None \/ d = None
            THEN CombineSelected(vals, hoy, picks, i + 1, total + t, direct)
            ELSE CombineSelected(vals, hoy, picks, i + 1, total + t, direct + d)

\* C14: in combinedValueById(hour, stateIds) a source whose state id is -1
\* adds 0 to the total and 0 to the direct sum whatever is stored for it: the
\* call ends as the combination over the remaining sources alone, with the
\* same pair.
C14_ExcludedSourceAddsNothing ==
    [][(/\ call'.op = "combinedValueById"
        /\ Len(RowOr(call'.args.blindsStateIds)) = NumSources)
       => LET alone == CombineSelected(values, call'.args.hoy,
                           Selected(RowOr(call'.args.blindsStateIds), 1),
                           1, 0, Direct0(isDirectLoaded))
          IN /\ call'.outcome = alone.outcome
             /\ call'.ret = alone.ret]_vars

\* a pair was returned for a row that removes the second source, which
\* holds a total and a direct value for the hour, and keeps the first
C14_Witness ==
    /\ call.op = "combinedValueById"
    /\ call.outcome = "ok"
    /\ call.args.hoy = 0
    /\ call.args.blindsStateIds = <<0, -1>>
    /\ call.ret = <<2, 1>>
    /\ \E st \in 1..Len(values[2]) :
           /\ 0 \in DOMAIN values[2][st]
           /\ values[2][st][0].v = <<2, 1>>

\* the direct values of the samples that the pairs picks select at hoy
DirectsOf(vals, hoy, picks) ==
    [i \in 1..Len(picks) |->
        Touch(Series(vals, picks[i][1], picks[i][2]), hoy)[hoy].v[2]]

RECURSIVE SumSeq(_, _)
SumSeq(seq, i) == IF i > Len(seq) THEN 0 ELSE seq[i] + SumSeq(seq, i + 1)

\* C16: the direct value combinedValueById returns is None whenever
\* hasDirectValues is false, and whenever the direct value of a selected
\* (non -1) sample is None; otherwise it is the sum of the direct values of
\* the selected samples.
C16_DirectIsNoneOrTheSum ==
    [][(call'.op = "combinedValueById" /\ call'.outcome = "ok")
       => LET ds == DirectsOf(values, call'.args.hoy,
                              Selected(RowOr(call'.args.blindsStateIds), 1))
          IN call'.ret[2] =
                 (IF ~hasDirectValues \/ \E i \in 1..Len(ds) : ds[i] = None
                  THEN None ELSE SumSeq(ds, 1))]_vars

----------------------------------------------------------------------------
(* Claims about the UDI buckets *)

\* the totals of the hours a metric call c counts, on the store before it
Counted(c) ==
    InSchedule(Totals(combinedValuesById(Self, hoys, c.args.blindsStateIds).ret),
               Schedule(c.args.occSchedule, hoys))

\* how many of the values vs are in S
HowMany(vs, S) == Cardinality({i \in 1..Len(vs) : vs[i] \in S})

\* C15: in usefulDaylightIlluminance and annualMetrics with bounds
\* (min, max), min <= max, a counted hour whose value equals min or max is
\* in the UDI bucket, and in no other; a value below min is in UDI_low only
\* and a value above max in UDI_high only.
C15_BoundsAreInsideUDI ==
    [][(/\ call'.op \in {"usefulDaylightIlluminance", "annualMetrics"}
        /\ call'.outcome = "ok"
        /\ MinMax(call'.args.UDIMinMax)[1] <= MinMax(call'.args.UDIMinMax)[2])
       => LET lo == MinMax(call'.args.UDIMinMax)[1]
              hi == MinMax(call'.args.UDIMinMax)[2]
              vs == Counted(call')
          IN /\ call'.ret.UDI = <<HowMany(vs, lo..hi), Len(vs)>>
             /\ call'.ret.UDI_l = <<HowMany(vs, {v \in Int : v < lo}), Len(vs)>>
             /\ call'.ret.UDI_m = <<HowMany(vs, {v \in Int : v > hi}), Len(vs)>>]_vars

\* the two hours of the store hold the lower and the upper bound, both are
\* counted and both are in the UDI bucket
C15_Witness ==
    /\ call.op = "usefulDaylightIlluminance"
    /\ call.outcome = "ok"
    /\ call.args.UDIMinMax = <<1, 2>>
    /\ Len(values) = 1
    /\ DOMAIN values[1][1] = {0, 1}
    /\ values[1][1][0].v[1] = 1
    /\ values[1][1][1].v[1] = 2
    /\ call.ret.UDI = <<2, 2>>
    /\ call.ret.UDI_l = <<0, 2>>
    /\ call.ret.UDI_m = <<0, 2>>

====
